---- MODULE Spec2Model ----
(***************************************************************************)
(* Model of the recipe manager in src/main.py: the recipe store (one JSON  *)
(* file per recipe in "Saved Recipes"), the creation flow new_recipe, the  *)
(* bulk load of calculate_recipe / view_recipes, the name search, and the  *)
(* scaling and quantity formatting of perform_recipe_calculation.          *)
(*                                                                         *)
(* Text is a sequence of one-character strings. Python floats are          *)
(* modelled as exact rationals [n |-> numerator, d |-> denominator > 0]    *)
(* in lowest terms. A stored file is the sequence of the lines json.dump   *)
(* writes with indent=2, each line a key token followed by the characters  *)
(* of its value.                                                           *)
(***************************************************************************)
EXTENDS Integers, Sequences, FiniteSets, TLC

(***************************************************************************)
(* Characters and str methods                                              *)
(***************************************************************************)
UpperChars == <<"A","B","C","D","E","F","G","H","I","J","K","L","M",
                "N","O","P","Q","R","S","T","U","V","W","X","Y","Z">>

LowerChars == <<"a","b","c","d","e","f","g","h","i","j","k","l","m",
                "n","o","p","q","r","s","t","u","v","w","x","y","z">>

DigitChars == <<"0","1","2","3","4","5","6","7","8","9">>

\* code-point order of the characters the model uses
Alphabet == <<"\n", " ", "-", ".">> \o DigitChars \o UpperChars \o LowerChars

IndexOf(c, seq) ==
    IF \E i \in 1..Len(seq) : seq[i] = c
    THEN CHOOSE i \in 1..Len(seq) : seq[i] = c
    ELSE 0

Ord(c) == IndexOf(c, Alphabet)

LowerChar(c) ==
    IF IndexOf(c, UpperChars) > 0 THEN LowerChars[IndexOf(c, UpperChars)] ELSE c

UpperChar(c) ==
    IF IndexOf(c, LowerChars) > 0 THEN UpperChars[IndexOf(c, LowerChars)] ELSE c

\* str.lower()
RECURSIVE Lower(_)
Lower(s) == IF s = <<>> THEN <<>> ELSE <<LowerChar(Head(s))>> \o Lower(Tail(s))

\* str.upper()
RECURSIVE Upper(_)
Upper(s) == IF s = <<>> THEN <<>> ELSE <<UpperChar(Head(s))>> \o Upper(Tail(s))

IsSpace(c) == c \in {" ", "\n"}

RECURSIVE LStrip(_)
LStrip(s) == IF s # <<>> /\ IsSpace(Head(s)) THEN LStrip(Tail(s)) ELSE s

RECURSIVE RStrip(_)
RStrip(s) ==
    IF s # <<>> /\ IsSpace(s[Len(s)]) THEN RStrip(SubSeq(s, 1, Len(s) - 1)) ELSE s

\* str.strip()
Strip(s) == LStrip(RStrip(s))

\* str.rstrip(c) for a single character c
RECURSIVE RStripChar(_, _)
RStripChar(s, c) ==
    IF s # <<>> /\ s[Len(s)] = c THEN RStripChar(SubSeq(s, 1, Len(s) - 1), c) ELSE s

\* str.replace(" ", "-")
RECURSIVE ReplaceSpaces(_)
ReplaceSpaces(s) ==
    IF s = <<>> THEN <<>>
    ELSE <<IF Head(s) = " " THEN "-" ELSE Head(s)>> \o ReplaceSpaces(Tail(s))

\* "\n".join(lines)
RECURSIVE JoinLines(_)
JoinLines(lines) ==
    IF lines = <<>> THEN <<>>
    ELSE IF Len(lines) = 1 THEN lines[1]
    ELSE lines[1] \o <<"\n">> \o JoinLines(Tail(lines))

\* lexicographic order of two texts by code point (Python's str <)
RECURSIVE StrLess(_, _)
StrLess(a, b) ==
    IF b = <<>> THEN FALSE
    ELSE IF a = <<>> THEN TRUE
    ELSE IF Ord(Head(a)) < Ord(Head(b)) THEN TRUE
    ELSE IF Ord(Head(a)) > Ord(Head(b)) THEN FALSE
    ELSE StrLess(Tail(a), Tail(b))

(***************************************************************************)
(* Numbers: floats as exact rationals                                      *)
(***************************************************************************)
Abs(x) == IF x < 0 THEN -x ELSE x

RECURSIVE Gcd(_, _)
Gcd(a, b) == IF b = 0 THEN a ELSE Gcd(b, a % b)

\* the rational n/d (d # 0) in lowest terms with a positive denominator
Rat(n, d) ==
    LET g == Gcd(Abs(n), Abs(d))
        s == IF d < 0 THEN -1 ELSE 1
    IN  [n |-> (s * n) \div g, d |-> (s * d) \div g]

RatMul(a, b) == Rat(a.n * b.n, a.d * b.d)

\* a / b, b # 0
RatDiv(a, b) == Rat(a.n * b.d, a.d * b.n)

RatLess(a, b) == a.n * b.d < b.n * a.d

RatLeq(a, b) == a.n * b.d <= b.n * a.d

RatIsInt(a) == a.n % a.d = 0

\* int(x): truncation toward zero
RatTrunc(a) == IF a.n >= 0 THEN a.n \div a.d ELSE -((-a.n) \div a.d)

RECURSIVE Pow10(_)
Pow10(k) == IF k = 0 THEN 1 ELSE 10 * Pow10(k - 1)

\* decimal digits of a natural number
RECURSIVE NatDigits(_)
NatDigits(n) ==
    IF n < 10 THEN <<DigitChars[n + 1]>>
    ELSE NatDigits(n \div 10) \o <<DigitChars[(n % 10) + 1]>>

\* a natural number as exactly k digits (n < 10^k)
RECURSIVE FixedDigits(_, _)
FixedDigits(n, k) ==
    IF k = 0 THEN <<>>
    ELSE FixedDigits(n \div 10, k - 1) \o <<DigitChars[(n % 10) + 1]>>

\* str(i) for an integer i
IntStr(i) == IF i < 0 THEN <<"-">> \o NatDigits(-i) ELSE NatDigits(i)

IsDigits(s) == s # <<>> /\ \A i \in 1..Len(s) : IndexOf(s[i], DigitChars) > 0

RECURSIVE DigitsValue(_)
DigitsValue(s) ==
    IF s = <<>> THEN 0
    ELSE 10 * DigitsValue(SubSeq(s, 1, Len(s) - 1)) + (IndexOf(s[Len(s)], DigitChars) - 1)

NumFail == [ok |-> FALSE, val |-> [n |-> 0, d |-> 1]]

\* value of an unsigned decimal literal: digits, optionally "." and digits
ParseUnsigned(s) ==
    LET dot == IndexOf(".", s) IN
    IF dot = 0
    THEN IF IsDigits(s) THEN [ok |-> TRUE, val |-> Rat(DigitsValue(s), 1)] ELSE NumFail
    ELSE LET ip == SubSeq(s, 1, dot - 1)
             fp == SubSeq(s, dot + 1, Len(s))
         IN  IF IsDigits(ip) /\ IsDigits(fp)
             THEN [ok |-> TRUE,
                   val |-> Rat(DigitsValue(ip) * Pow10(Len(fp)) + DigitsValue(fp),
                               Pow10(Len(fp)))]
             ELSE NumFail

\* a decimal literal with an optional leading minus sign
ParseNumber(s) ==
    IF s # <<>> /\ Head(s) = "-"
    THEN LET r == ParseUnsigned(Tail(s)) IN
         IF r.ok THEN [ok |-> TRUE, val |-> Rat(-r.val.n, r.val.d)] ELSE NumFail
    ELSE ParseUnsigned(s)

\* float(text): surrounding whitespace is ignored, anything that is not a
\* number raises ValueError (ok = FALSE)
ParseFloat(text) == ParseNumber(Strip(text))

\* the quantity written with two decimals only
FloatReprTwoDecimals(q) ==
    LET m    == (Abs(q.n) * 100) \div q.d
        frac == RStripChar(FixedDigits(m % 100, 2), "0")
    IN  (IF q.n < 0 THEN <<"-">> ELSE <<>>)
        \o NatDigits(m \div 100) \o <<".">>
        \o (IF frac = <<>> THEN <<"0">> ELSE frac)

\* float.__repr__ as json.dump writes it, for values with at most three
\* decimal places: always a decimal point, at least one fractional digit
FloatRepr(q) ==
    LET m    == (Abs(q.n) * 1000) \div q.d
        frac == RStripChar(FixedDigits(m % 1000, 3), "0")
    IN  (IF q.n < 0 THEN <<"-">> ELSE <<>>)
        \o NatDigits(m \div 1000) \o <<".">>
        \o (IF frac = <<>> THEN <<"0">> ELSE frac)

\* f"{x:.kf}": x rounded to k decimals (the tie rule of an exactly
\* representable value is round-half-even), sign kept for negative values
FormatFixed(x, k) ==
    LET a == Abs(x.n) * Pow10(k)
        q == a \div x.d
        r == a % x.d
        u == IF 2 * r > x.d THEN q + 1
             ELSE IF 2 * r = x.d THEN q + (q % 2)
             ELSE q
    IN  (IF x.n < 0 THEN <<"-">> ELSE <<>>)
        \o NatDigits(u \div Pow10(k)) \o <<".">> \o FixedDigits(u % Pow10(k), k)

\* f"{x:.kf}".rstrip("0").rstrip(".")
StripFixed(x, k) == RStripChar(RStripChar(FormatFixed(x, k), "0"), ".")

(***************************************************************************)
(* Quantity formatting at the three display sites                          *)
(***************************************************************************)
\* display_recipe_preview
PreviewQtyStr(qty) ==
    IF RatIsInt(qty) THEN IntStr(RatTrunc(qty)) ELSE StripFixed(qty, 2)

\* display_full_recipe
FullQtyStr(qty) ==
    IF RatIsInt(qty) THEN IntStr(RatTrunc(qty)) ELSE StripFixed(qty, 2)

\* the scaled amount formatted as the other two sites format
ScaledQtyStrTwoDecimals(scaled_qty) ==
    IF RatIsInt(scaled_qty) THEN IntStr(RatTrunc(scaled_qty))
    ELSE StripFixed(scaled_qty, 2)

\* perform_recipe_calculation
ScaledQtyStr(scaled_qty) ==
    IF RatIsInt(scaled_qty) THEN IntStr(RatTrunc(scaled_qty))
    ELSE IF RatLess(scaled_qty, Rat(1, 10)) THEN StripFixed(scaled_qty, 3)
    ELSE StripFixed(scaled_qty, 2)

(***************************************************************************)
(* The stored form of a recipe: json.dump(recipe_data, f, indent=2) and    *)
(* json.load(f)                                                            *)
(***************************************************************************)
\* JSON string escaping of the characters the model uses
RECURSIVE EscapeText(_)
EscapeText(s) ==
    IF s = <<>> THEN <<>>
    ELSE <<IF Head(s) = "\n" THEN "\\n" ELSE Head(s)>> \o EscapeText(Tail(s))

RECURSIVE UnescapeText(_)
UnescapeText(s) ==
    IF s = <<>> THEN <<>>
    ELSE <<IF Head(s) = "\\n" THEN "\n" ELSE Head(s)>> \o UnescapeText(Tail(s))

DumpIngredient(ing) ==
    << <<"{">>,
       <<"name:">> \o EscapeText(ing.name),
       <<"quantity:">> \o FloatRepr(ing.quantity),
       <<"unit:">> \o EscapeText(ing.unit),
       <<"}">> >>

RECURSIVE DumpIngredients(_)
DumpIngredients(ings) ==
    IF ings = <<>> THEN <<>>
    ELSE DumpIngredient(Head(ings)) \o DumpIngredients(Tail(ings))

\* the lines of the file new_recipe writes for recipe_data
Dump(recipe_data) ==
    << <<"{">>,
       <<"name:">> \o EscapeText(recipe_data.name),
       <<"notes:">> \o EscapeText(recipe_data.notes) >>
    \o (IF recipe_data.ingredients = <<>>
        THEN << <<"ingredients:[]">> >>
        ELSE << <<"ingredients:[">> >>
             \o DumpIngredients(recipe_data.ingredients)
             \o << <<"]">> >>)
    \o << <<"created_date:">> \o EscapeText(recipe_data.created_date),
          <<"}">> >>

ParseFail == [ok |-> FALSE, data |-> <<>>, next |-> 0]

\* what json.load returns for a file that holds the array []: not a dict
JsonArray == [json_array |-> <<>>]

\* the first element of a value that json.load returned as a number where
\* the program expects text; the digits follow
NumberTag == "number:"

\* isinstance(v, dict) for a value json.load returned
IsObject(v) == "json_array" \notin DOMAIN v

\* isinstance(v, str) for a value json.load returned
IsStr(v) == v = <<>> \/ Head(v) # NumberTag

\* d with key k set to v (a later duplicate key wins, as in json.load)
Put(d, k, v) == (k :> v) @@ d

\* dict.get(k, default)
Get(d, k, default) == IF k \in DOMAIN d THEN d[k] ELSE default

EmptyDict == <<>>

\* the fields of one ingredient object, from line i up to its closing "}"
RECURSIVE ParseIngredient(_, _, _)
ParseIngredient(lines, i, acc) ==
    IF i > Len(lines) \/ lines[i] = <<>> THEN ParseFail
    ELSE LET l == lines[i] IN
         IF l = <<"}">> THEN [ok |-> TRUE, data |-> acc, next |-> i + 1]
         ELSE IF Head(l) = "name:"
         THEN ParseIngredient(lines, i + 1, Put(acc, "name", UnescapeText(Tail(l))))
         ELSE IF Head(l) = "unit:"
         THEN ParseIngredient(lines, i + 1, Put(acc, "unit", UnescapeText(Tail(l))))
         ELSE IF Head(l) = "quantity:"
         THEN LET q == ParseNumber(Tail(l)) IN
              IF q.ok THEN ParseIngredient(lines, i + 1, Put(acc, "quantity", q.val))
              ELSE ParseFail
         ELSE ParseFail

\* the elements of the ingredients array, from line i up to its closing "]"
RECURSIVE ParseIngredients(_, _, _)
ParseIngredients(lines, i, acc) ==
    IF i > Len(lines) THEN ParseFail
    ELSE IF lines[i] = <<"]">> THEN [ok |-> TRUE, data |-> acc, next |-> i + 1]
    ELSE IF lines[i] = <<"{">>
    THEN LET r == ParseIngredient(lines, i + 1, EmptyDict) IN
         IF r.ok THEN ParseIngredients(lines, r.next, Append(acc, r.data))
         ELSE ParseFail
    ELSE ParseFail

\* the fields of the top-level object, from line i up to the closing "}",
\* which must be the last line of the file
RECURSIVE ParseTop(_, _, _)
ParseTop(lines, i, acc) ==
    IF i > Len(lines) \/ lines[i] = <<>> THEN ParseFail
    ELSE LET l == lines[i] IN
         IF l = <<"}">>
         THEN IF i = Len(lines) THEN [ok |-> TRUE, data |-> acc, next |-> i + 1]
              ELSE ParseFail
         ELSE IF Head(l) = "name:"
         THEN ParseTop(lines, i + 1, Put(acc, "name", UnescapeText(Tail(l))))
         ELSE IF Head(l) = "name#"
         THEN IF Tail(l) # <<>> /\ IsDigits(Tail(l))
              THEN ParseTop(lines, i + 1, Put(acc, "name", <<NumberTag>> \o Tail(l)))
              ELSE ParseFail
         ELSE IF Head(l) = "notes:"
         THEN ParseTop(lines, i + 1, Put(acc, "notes", UnescapeText(Tail(l))))
         ELSE IF Head(l) = "created_date:"
         THEN ParseTop(lines, i + 1, Put(acc, "created_date", UnescapeText(Tail(l))))
         ELSE IF l = <<"ingredients:[]">>
         THEN ParseTop(lines, i + 1, Put(acc, "ingredients", <<>>))
         ELSE IF l = <<"ingredients:[">>
         THEN LET r == ParseIngredients(lines, i + 1, <<>>) IN
              IF r.ok THEN ParseTop(lines, r.next, Put(acc, "ingredients", r.data))
              ELSE ParseFail
         ELSE ParseFail

\* json.load of a file: ok = FALSE stands for the JSONDecodeError
Load(lines) ==
    IF lines = << <<"[]">> >> THEN [ok |-> TRUE, data |-> JsonArray, next |-> 2]
    ELSE IF lines = <<>> \/ lines[1] # <<"{">> THEN ParseFail
    ELSE ParseTop(lines, 2, EmptyDict)

(***************************************************************************)
(* State                                                                   *)
(***************************************************************************)
VARIABLES
    dirExists,    \* whether the directory "Saved Recipes" exists
    store,        \* file name -> lines of the file, for the files of the directory
    clock,        \* datetime.datetime.now()
    last,         \* the operation that ran last: its inputs and its outcome
    all_recipes,  \* all_recipes of the last bulk load: <<filename, recipe_data>>
    read_errors,  \* file names the last bulk load reported as unreadable
    recipe_data,  \* the recipe handed to the display and calculation functions
    calc,         \* what perform_recipe_calculation did with recipe_data
    preview_rows, \* the table rows display_recipe_preview printed
    full_rows,    \* the table rows display_full_recipe printed
    search_note,  \* how far the search of the last listing went
    search_term,  \* search_term of the last listing
    filtered_recipes, \* filtered_recipes of the last listing
    recipes_table, \* the rows of recipes_table: names, highlight offsets
    deleting,     \* delete_recipe: its position, table, recipe_data_list, outcome
    capture       \* the notes loop of new_recipe: lines typed, lines kept

storeVars == <<dirExists, store, clock, last, all_recipes, read_errors>>

scaleVars == <<recipe_data, calc, preview_rows, full_rows>>

searchVars == <<search_note, search_term, filtered_recipes, recipes_table>>

vars == <<dirExists, store, clock, last, all_recipes, read_errors,
          recipe_data, calc, preview_rows, full_rows,
          search_note, search_term, filtered_recipes, recipes_table,
          deleting, capture>>

\* the notes loop has not been entered
NoCapture ==
    [pos |-> "none", typed_lines |-> <<>>, notes_lines |-> <<>>,
     notes |-> <<>>]

\* delete_recipe has not run
NoDeletion ==
    [pos |-> "none", outcome |-> "none", recipe_files |-> <<>>,
     table |-> <<>>, recipe_data_list |-> <<>>, errors |-> {},
     choice_num |-> 0, removed |-> <<>>]

\* no listing shown yet
SearchIdle ==
    /\ search_note = "none"
    /\ search_term = <<>>
    /\ filtered_recipes = <<>>
    /\ recipes_table = <<>>

\* the listing of an earlier menu choice is gone when another choice runs
SearchReset ==
    /\ search_note' = "none"
    /\ search_term' = <<>>
    /\ filtered_recipes' = <<>>
    /\ recipes_table' = <<>>

(***************************************************************************)
(* Bounds and input domains                                                *)
(***************************************************************************)
\* number of times new_recipe reads the clock
MaxClock == 2

\* names typed at "Enter recipe name"
RawNames ==
    { <<"P","i","e">>, <<" ","p","i","e">>, <<"p","I","E"," ">>,
      <<" ","N","u","t"," "," ","P","i","e"," ">>, <<" ">>, <<>> }

\* line sequences typed at the notes prompt
NoteInputs ==
    << << <<"D","O","N","E">> >>,
       << <<"m","i","x">>, <<>>, <<"b","a","k","e">>, <<>>, <<>> >>,
       << <<" ">>, <<"m","i","x">>, <<" ">>, <<" ","d","o","n","e">> >>,
       << <<"m","i","x">>, <<>>, <<"b","a","k","e">> >> >>

\* answers typed in the ingredient loop: name, unit, the quantity answers in
\* turn, and the answer to "Add another ingredient?"
IngredientInputs ==
    << << [name |-> <<"f">>, unit |-> <<"c">>, quantities |-> << <<"2">> >>,
           more |-> FALSE] >>,
       << [name |-> <<"f">>, unit |-> <<"g">>,
           quantities |-> << <<"x">>, <<"0">> >>, more |-> TRUE],
          [name |-> <<" ">>, unit |-> <<"g">>, quantities |-> <<>>, more |-> TRUE],
          [name |-> <<" ","s">>, unit |-> <<"t">>,
           quantities |-> << <<"0",".","5">> >>, more |-> FALSE] >>,
       << [name |-> <<"s">>, unit |-> <<>>, quantities |-> <<>>, more |-> FALSE],
          [name |-> <<"s">>, unit |-> <<"t">>,
           quantities |-> << <<"0",".","0","1","7">> >>, more |-> TRUE],
          [name |-> <<"f">>, unit |-> <<"c">>,
           quantities |-> << <<"-","1",".","5">> >>, more |-> FALSE] >>,
       << [name |-> <<"f">>, unit |-> <<"c">>, quantities |-> << <<"x">> >>,
           more |-> FALSE] >> >>

\* what one run of new_recipe is given at the notes prompt and in the
\* ingredient loop
TypedInputs ==
    { [notes |-> NoteInputs[i], ingredients |-> IngredientInputs[i]] :
        i \in 1..Len(NoteInputs) }

\* how the write of lines 241-242 ends: it succeeds, open() raises before the
\* file is touched, or the write raises after open() truncated the file, with
\* nothing or with all but the last line of the new text in it
WriteOutcomes == {"ok", "open_error", "write_error_empty", "write_error_partial"}

(***************************************************************************)
(* new_recipe                                                              *)
(***************************************************************************)
JsonExt == <<".","j","s","o","n">>

\* the identifier derived without trimming the typed name
DeriveIdUntrimmed(raw) == ReplaceSpaces(Lower(raw))

\* the identifier derived from the typed name
DeriveId(raw) == ReplaceSpaces(Strip(Lower(raw)))

FileName(recipe_name) == recipe_name \o JsonExt

\* os.path.exists(filepath)
FileExists(filename) == dirExists /\ filename \in DOMAIN store

\* the names the loop of lines 133-143 can return: the derived identifier of a
\* typed name, asked again while it is empty
AcceptedNames == { DeriveId(raw) : raw \in RawNames } \ { <<>> }

\* the answers that end the loop of lines 133-143, each with the identifier
\* the loop returns for it
NameEntries ==
    { e \in { [typed |-> raw, recipe_name |-> DeriveId(raw)] : raw \in RawNames } :
        e.recipe_name # <<>> }

\* the overwrite question skipped: the flow goes on whatever the answer
OverwriteAllowedUnasked(existed, overwrite) == TRUE

\* lines 149-155: the flow goes on unless the file exists and the overwrite
\* was declined
OverwriteAllowed(existed, overwrite) == ~existed \/ overwrite

\* the notes loop: reads input[i..] until the DONE line or the second
\* consecutive blank line; done = FALSE when the input ends before that
RECURSIVE ReadNotes(_, _, _, _)
ReadNotes(input, i, notes_lines, empty_line_count) ==
    IF i > Len(input) THEN [done |-> FALSE, lines |-> notes_lines]
    ELSE LET line == input[i] IN
         IF Upper(Strip(line)) = <<"D","O","N","E">>
         THEN [done |-> TRUE, lines |-> notes_lines]
         ELSE IF Strip(line) = <<>>
         THEN IF empty_line_count + 1 >= 2
              THEN [done |-> TRUE, lines |-> notes_lines]
              ELSE ReadNotes(input, i + 1, Append(notes_lines, line),
                             empty_line_count + 1)
         ELSE ReadNotes(input, i + 1, Append(notes_lines, line), 0)

\* lines 179-181 left out
KeepTrailingBlank(notes_lines) == notes_lines

\* lines 179-181
RECURSIVE DropTrailingBlank(_)
DropTrailingBlank(notes_lines) ==
    IF notes_lines # <<>> /\ Strip(notes_lines[Len(notes_lines)]) = <<>>
    THEN DropTrailingBlank(SubSeq(notes_lines, 1, Len(notes_lines) - 1))
    ELSE notes_lines

\* lines 163-183
CaptureNotes(input) ==
    LET r == ReadNotes(input, 1, <<>>, 0) IN
    [done |-> r.done, notes |-> JoinLines(DropTrailingBlank(r.lines))]


\* the first answer of the quantity loop that float() accepts
RECURSIVE FirstQuantity(_)
FirstQuantity(answers) ==
    IF answers = <<>> THEN NumFail
    ELSE IF ParseFloat(Head(answers)).ok THEN ParseFloat(Head(answers))
    ELSE FirstQuantity(Tail(answers))

\* the ingredient loop, lines 189-225
RECURSIVE ReadIngredients(_, _, _)
ReadIngredients(input, i, ingredients) ==
    IF i > Len(input) THEN [done |-> FALSE, ingredients |-> ingredients]
    ELSE LET a == input[i] IN
         IF Strip(a.name) = <<>> THEN ReadIngredients(input, i + 1, ingredients)
         ELSE IF Strip(a.unit) = <<>> THEN ReadIngredients(input, i + 1, ingredients)
         ELSE LET q == FirstQuantity(a.quantities) IN
              IF ~q.ok THEN [done |-> FALSE, ingredients |-> ingredients]
              ELSE LET added == Append(ingredients,
                                       [name |-> Strip(a.name),
                                        quantity |-> q.val,
                                        unit |-> Strip(a.unit)])
                   IN  IF a.more THEN ReadIngredients(input, i + 1, added)
                       ELSE [done |-> TRUE, ingredients |-> added]

\* the notes and ingredients the flow can hold at line 226: those of the typed
\* inputs that end both loops
Captured ==
    { [notes |-> CaptureNotes(t.notes).notes,
       ingredients |-> ReadIngredients(t.ingredients, 1, <<>>).ingredients] :
        t \in { u \in TypedInputs : /\ CaptureNotes(u.notes).done
                                     /\ ReadIngredients(u.ingredients, 1, <<>>).done } }

\* datetime.datetime.now().isoformat()
IsoFormat(t) == NatDigits(t)

\* lines 227-233
RecipeData(recipe_name, notes, ingredients, now) ==
    [name |-> recipe_name, notes |-> notes, ingredients |-> ingredients,
     created_date |-> IsoFormat(now)]

\* lines 241-242: what the file holds after open(filepath, "w") and json.dump
WrittenFile(data, wr) ==
    LET lines == Dump(data) IN
    IF wr = "ok" THEN lines
    ELSE IF wr = "write_error_empty" THEN <<>>
    ELSE SubSeq(lines, 1, Len(lines) - 1)

StoreWith(filename, lines) == (filename :> lines) @@ store

NoData == EmptyDict

\* the flow up to line 155 when the overwrite is declined
NewRecipeDeclined(name_entry, overwrite) ==
    LET recipe_name == name_entry.recipe_name
        existed == FileExists(FileName(recipe_name))
    IN  /\ search_note # "offered"
        /\ deleting.pos # "prompt"
        /\ existed
        /\ ~OverwriteAllowed(existed, overwrite)
        /\ dirExists' = TRUE
        /\ last' = [op |-> "new", typed |-> name_entry.typed,
                    id |-> recipe_name, existed |-> existed,
                    overwrite |-> overwrite, result |-> "cancelled",
                    data |-> NoData, listed |-> "none"]
        /\ all_recipes' = <<>>
        /\ read_errors' = {}
        /\ UNCHANGED <<store, clock>>
        /\ SearchReset
        /\ UNCHANGED scaleVars
        /\ UNCHANGED capture
        /\ UNCHANGED deleting

\* the whole flow when "Save this recipe?" is declined
NewRecipeNotSaved(name_entry, overwrite) ==
    LET recipe_name == name_entry.recipe_name
        existed == FileExists(FileName(recipe_name))
    IN  /\ search_note # "offered"
        /\ deleting.pos # "prompt"
        /\ clock < MaxClock
        /\ existed \/ ~overwrite
        /\ OverwriteAllowed(existed, overwrite)
        /\ clock' = clock + 1
        /\ dirExists' = TRUE
        /\ last' = [op |-> "new", typed |-> name_entry.typed,
                    id |-> recipe_name, existed |-> existed,
                    overwrite |-> overwrite, result |-> "not_saved",
                    data |-> NoData, listed |-> "none"]
        /\ all_recipes' = <<>>
        /\ read_errors' = {}
        /\ UNCHANGED store
        /\ SearchReset
        /\ UNCHANGED scaleVars
        /\ UNCHANGED capture
        /\ UNCHANGED deleting

\* the whole flow when the save is confirmed; captured is what the notes and
\* ingredient loops returned, wr how the write ends
NewRecipeSave(name_entry, overwrite, captured, wr) ==
    LET recipe_name == name_entry.recipe_name
        filename    == FileName(recipe_name)
        existed     == FileExists(filename)
        new_data    == RecipeData(recipe_name, captured.notes,
                                  captured.ingredients, clock + 1)
    IN  /\ search_note # "offered"
        /\ deleting.pos # "prompt"
        /\ clock < MaxClock
        /\ existed \/ ~overwrite
        /\ OverwriteAllowed(existed, overwrite)
        /\ clock' = clock + 1
        /\ dirExists' = TRUE
        /\ store' = IF wr = "open_error" THEN store
                    ELSE StoreWith(filename, WrittenFile(new_data, wr))
        /\ last' = [op |-> "new", typed |-> name_entry.typed,
                    id |-> recipe_name, existed |-> existed,
                    overwrite |-> overwrite,
                    result |-> IF wr = "ok" THEN "saved" ELSE "save_error",
                    data |-> new_data, listed |-> "none"]
        /\ all_recipes' = <<>>
        /\ read_errors' = {}
        /\ SearchReset
        /\ UNCHANGED scaleVars
        /\ UNCHANGED capture
        /\ UNCHANGED deleting

(***************************************************************************)
(* The bulk load of calculate_recipe and view_recipes                      *)
(***************************************************************************)
EndsWithJson(filename) ==
    /\ Len(filename) >= Len(JsonExt)
    /\ SubSeq(filename, Len(filename) - Len(JsonExt) + 1, Len(filename)) = JsonExt

\* filename.replace(".json", "") for a name that holds ".json" only at its end
WithoutJson(filename) ==
    IF EndsWithJson(filename)
    THEN SubSeq(filename, 1, Len(filename) - Len(JsonExt))
    ELSE filename

\* the orders in which os.listdir may return the files
ListdirOrders(files) ==
    { o \in [1..Cardinality(files) -> files] :
        \A i, j \in 1..Cardinality(files) : i # j => o[i] # o[j] }

\* the load loop: files that json.load rejects are reported and skipped
\* lines 319-326 for one file: r is what json.load made of it
Loaded(filename, r) == IF r.ok THEN << <<filename, r.data>> >> ELSE <<>>

RECURSIVE LoadAll(_, _)
LoadAll(recipe_files, i) ==
    IF i > Len(recipe_files) THEN <<>>
    ELSE Loaded(recipe_files[i], Load(store[recipe_files[i]]))
         \o LoadAll(recipe_files, i + 1)

\* the key of all_recipes.sort: x[1].get("name", x[0]).lower()
SortKey(x) == Lower(Get(x[2], "name", x[1]))

\* x inserted after the last element whose key is not greater (stable)
RECURSIVE InsertSorted(_, _)
InsertSorted(sorted, x) ==
    IF sorted = <<>> THEN <<x>>
    ELSE IF StrLess(SortKey(x), SortKey(sorted[Len(sorted)]))
    THEN Append(InsertSorted(SubSeq(sorted, 1, Len(sorted) - 1), x),
                sorted[Len(sorted)])
    ELSE Append(sorted, x)

\* list.sort(key = ...): a stable sort
RECURSIVE SortRecipes(_)
SortRecipes(recipes) ==
    IF recipes = <<>> THEN <<>>
    ELSE InsertSorted(SortRecipes(SubSeq(recipes, 1, Len(recipes) - 1)),
                      recipes[Len(recipes)])

Unreadable(files) == { f \in files : ~Load(store[f]).ok }

\* the key function of line 329 raises AttributeError: x[1] has no get, or
\* the name it returns has no lower
SortKeyRaises(x) ==
    \/ ~IsObject(x[2])
    \/ ~IsStr(Get(x[2], "name", x[1]))

\* list.sort calls the key function on every element before it sorts
SortRaises(recipes) == \E i \in 1..Len(recipes) : SortKeyRaises(recipes[i])

\* the search is offered for more recipes than this (lines 336 and 569)
SearchThreshold == 5

\* str.find(sub) from the 1-based position i: a 0-based offset, or -1
RECURSIVE FindFrom(_, _, _)
FindFrom(sub, s, i) ==
    IF i + Len(sub) - 1 > Len(s) THEN -1
    ELSE IF SubSeq(s, i, i + Len(sub) - 1) = sub THEN i - 1
    ELSE FindFrom(sub, s, i + 1)

Find(sub, s) == FindFrom(sub, s, 1)

\* recipe_data.get("name", filename.replace(".json", ""))
RecipeName(x) == Get(x[2], "name", WithoutJson(x[1]))

\* search_term.lower() in recipe_name.lower()
Matches(term, recipe_name) == Find(Lower(term), Lower(recipe_name)) # -1

\* the list comprehension of lines 346-351 and 581-586
RECURSIVE FilterRecipes(_, _)
FilterRecipes(recipes, term) ==
    IF recipes = <<>> THEN <<>>
    ELSE (IF Matches(term, RecipeName(Head(recipes)))
          THEN <<Head(recipes)>> ELSE <<>>)
         \o FilterRecipes(Tail(recipes), term)

BoldOn == "[bold yellow]"

BoldOff == "[/bold yellow]"

\* a row that is highlighted without asking whether a term was entered
TableRowAlwaysHighlighted(x, term) ==
    LET recipe_name == RecipeName(x)
        start_idx == Find(Lower(term), Lower(recipe_name))
        end_idx == start_idx + Len(term)
    IN  IF start_idx # -1
        THEN [name |-> recipe_name, start_idx |-> start_idx,
              end_idx |-> end_idx,
              display_name |->
                  SubSeq(recipe_name, 1, start_idx)
                  \o <<BoldOn>>
                  \o SubSeq(recipe_name, start_idx + 1, end_idx)
                  \o <<BoldOff>>
                  \o SubSeq(recipe_name, end_idx + 1, Len(recipe_name))]
        ELSE [name |-> recipe_name, start_idx |-> -1, end_idx |-> -1,
              display_name |-> recipe_name]

\* one row of recipes_table: the name and its highlighted form
TableRow(x, term) ==
    LET recipe_name == RecipeName(x)
        start_idx == Find(Lower(term), Lower(recipe_name))
        end_idx == start_idx + Len(term)
    IN  IF term # <<>> /\ Matches(term, recipe_name) /\ start_idx # -1
        THEN [name |-> recipe_name, start_idx |-> start_idx,
              end_idx |-> end_idx,
              display_name |->
                  SubSeq(recipe_name, 1, start_idx)
                  \o <<BoldOn>>
                  \o SubSeq(recipe_name, start_idx + 1, end_idx)
                  \o <<BoldOff>>
                  \o SubSeq(recipe_name, end_idx + 1, Len(recipe_name))]
        ELSE [name |-> recipe_name, start_idx |-> -1, end_idx |-> -1,
              display_name |-> recipe_name]

\* the loop that fills recipes_table from filtered_recipes
RECURSIVE TableRows(_, _)
TableRows(recipes, term) ==
    IF recipes = <<>> THEN <<>>
    ELSE <<TableRow(Head(recipes), term)>> \o TableRows(Tail(recipes), term)

\* calculate_recipe / view_recipes up to the search prompt, and up to the
\* table when the search is not offered
ListRecipes(order) ==
    LET files == { f \in DOMAIN store : EndsWithJson(f) } IN
    /\ search_note # "offered"
    /\ deleting.pos # "prompt"
    /\ order \in ListdirOrders(files)
    /\ \E unsorted \in {LoadAll(order, 1)} :
       \E raised \in {dirExists /\ SortRaises(unsorted)} :
       \E loaded \in {IF raised THEN <<>> ELSE SortRecipes(unsorted)} :
       \E shown \in {dirExists /\ files # {} /\ ~raised} :
          /\ all_recipes' = IF dirExists THEN loaded ELSE <<>>
          /\ search_note' = IF ~shown THEN "none"
                            ELSE IF Len(loaded) > SearchThreshold
                            THEN "offered"
                            ELSE "not_offered"
          /\ filtered_recipes' = IF shown THEN loaded ELSE <<>>
          /\ recipes_table' = IF shown /\ Len(loaded) <= SearchThreshold
                              THEN TableRows(loaded, <<>>) ELSE <<>>
          /\ last' = [last EXCEPT
                         !.op = "list",
                         !.listed = IF ~dirExists THEN "no_directory"
                                    ELSE IF files = {} THEN "no_recipes"
                                    ELSE IF raised THEN "AttributeError"
                                    ELSE "listed"]
    /\ read_errors' = IF dirExists THEN Unreadable(files) ELSE {}
    /\ search_term' = <<>>
    /\ UNCHANGED <<dirExists, store, clock>>
    /\ UNCHANGED scaleVars
    /\ UNCHANGED capture
    /\ deleting' = NoDeletion

\* the answers at "Search by name? (y/n)" and "Enter search term"
SearchInputs ==
    { [search_choice |-> <<"n">>, search_term |-> <<>>],
      [search_choice |-> <<>>, search_term |-> <<>>] }
    \cup { [search_choice |-> c, search_term |-> t] :
             c \in { <<"y">>, <<"Y">> },
             t \in { <<>>, <<" ">>, <<"p","i","e">>, <<"P","I">>, <<"e">>,
                     <<" ","t","e","a"," ">>, <<"x","y","z">>, <<"e","a">>,
                     <<"-">>, <<"t">>, <<"a","p","e","x">> } }

\* lines 337-367 and 570-602 with the table that follows: the answers to the
\* search prompts, the filter, the fallback and the rows shown
SearchRecipes(input) ==
    LET search_choice == Lower(input.search_choice)
        term == Strip(input.search_term)
        matched == FilterRecipes(all_recipes, term)
        searched == search_choice = <<"y">> /\ term # <<>>
        result == IF searched /\ matched # <<>> THEN matched ELSE all_recipes
    IN
    /\ search_note = "offered"
    /\ search_term' = IF search_choice = <<"y">> THEN term ELSE <<>>
    /\ filtered_recipes' = result
    /\ search_note' = IF search_choice # <<"y">> THEN "declined"
                      ELSE IF term = <<>> THEN "no_term_showing_all"
                      ELSE IF matched # <<>> THEN "found"
                      ELSE "no_match_showing_all"
    /\ recipes_table' = TableRows(result, search_term')
    /\ UNCHANGED storeVars
    /\ UNCHANGED scaleVars
    /\ UNCHANGED capture
    /\ UNCHANGED deleting

(***************************************************************************)
(* The store: creation and bulk load                                       *)
(***************************************************************************)
NoStore == <<>>

\* a directory left by an earlier session, with a file that is not JSON
LegacyStore ==
    (<<"b","a","d">> \o JsonExt) :> << <<"{">>, <<"name:","b","a","d">> >>

NoOperation ==
    [op |-> "none", typed |-> <<>>, id |-> <<>>, existed |-> FALSE,
     overwrite |-> FALSE,
     result |-> "none", data |-> NoData, listed |-> "none"]

\* no recipe selected, nothing calculated or displayed yet
NoCalc ==
    [outcome |-> "none", prompted |-> FALSE, user_quantity |-> <<>>,
     scaling_factor |-> <<>>, rows |-> <<>>]

ScaleIdle ==
    /\ recipe_data = EmptyDict
    /\ calc = NoCalc
    /\ preview_rows = <<>>
    /\ full_rows = <<>>

Init ==
    /\ \/ dirExists = FALSE /\ store = NoStore
       \/ dirExists = TRUE /\ store = LegacyStore
    /\ clock = 0
    /\ last = NoOperation
    /\ all_recipes = <<>>
    /\ read_errors = {}
    /\ ScaleIdle
    /\ SearchIdle
    /\ deleting = NoDeletion
    /\ capture = NoCapture

Next ==
    \/ \E name_entry \in NameEntries, overwrite \in BOOLEAN :
          NewRecipeDeclined(name_entry, overwrite)
    \/ \E name_entry \in NameEntries, overwrite \in BOOLEAN :
          NewRecipeNotSaved(name_entry, overwrite)
    \/ \E name_entry \in NameEntries, overwrite \in BOOLEAN,
          captured \in Captured, wr \in WriteOutcomes :
          NewRecipeSave(name_entry, overwrite, captured, wr)
    \/ \E order \in ListdirOrders({ f \in DOMAIN store : EndsWithJson(f) }) :
          ListRecipes(order)

Spec == Init /\ [][Next]_vars

(***************************************************************************)
(* Claims about the store                                                  *)
(***************************************************************************)
\* C1: in new_recipe a file that already exists is changed only by a run that
\* targets it and whose overwrite question was answered yes; when the answer
\* is no the run ends as cancelled and no file of the store is changed.
C1_OverwriteOnlyWhenConfirmed ==
    [][ /\ \A f \in DOMAIN store :
              (f \notin DOMAIN store' \/ store'[f] # store[f])
              => /\ last'.op = "new"
                 /\ FileName(last'.id) = f
                 /\ last'.existed
                 /\ last'.overwrite
        /\ (last'.op = "new" /\ last'.existed /\ ~last'.overwrite)
              => (last'.result = "cancelled" /\ store' = store)
      ]_vars

\* C1 witness: the overwrite of an existing recipe was declined and the run
\* ended as cancelled
C1_Witness ==
    /\ last.op = "new"
    /\ last.existed
    /\ ~last.overwrite
    /\ last.result = "cancelled"
    /\ Load(store[FileName(last.id)]).ok

\* C2: right after a successful save the file loads to a recipe equal to the
\* saved one in every field, ingredients in the same order, and the bulk
\* load that follows the save returns that recipe under its file name; this
\* includes a save that overwrote an older recipe.
C2_SaveLoadRoundTrip ==
    /\ (last.op = "new" /\ last.result = "saved")
          => /\ Load(store[FileName(last.id)]).ok
             /\ Load(store[FileName(last.id)]).data = last.data
    /\ (last.op = "list" /\ last.result = "saved")
          => \E i \in 1..Len(all_recipes) :
                all_recipes[i] = <<FileName(last.id), last.data>>

\* C2 witness: a bulk load after a save that overwrote an existing recipe
\* with a recipe of two ingredients
C2_Witness ==
    /\ last.op = "list"
    /\ last.result = "saved"
    /\ last.existed
    /\ last.overwrite
    /\ Len(last.data.ingredients) >= 2
    /\ \E i \in 1..Len(all_recipes) :
          /\ all_recipes[i][1] = FileName(last.id)
          /\ all_recipes[i][2].ingredients[1] = last.data.ingredients[1]

\* C3: a save attempt leaves under the identifier either the complete new
\* record (the save succeeded) or exactly what was there before (the save
\* failed).
C3_NoPartialWrites ==
    [][ (last'.op = "new" /\ last'.result \in {"saved", "save_error"})
        => LET f == FileName(last'.id) IN
           IF last'.result = "saved"
           THEN f \in DOMAIN store' /\ store'[f] = Dump(last'.data)
           ELSE \/ f \notin DOMAIN store /\ f \notin DOMAIN store'
                \/ f \in DOMAIN store /\ f \in DOMAIN store' /\ store'[f] = store[f]
      ]_vars

\* the created_date a file holds, <<>> when the file does not load or has none
CreatedDateOf(lines) ==
    LET r == Load(lines) IN
    IF r.ok THEN Get(r.data, "created_date", <<>>) ELSE <<>>

\* C4: the creation timestamp stored under an identifier is never changed by
\* a later operation on that identifier, an overwriting save included.
C4_CreatedDateNeverChanges ==
    [][ \A f \in (DOMAIN store) \cap (DOMAIN store') :
           (CreatedDateOf(store[f]) # <<>> /\ CreatedDateOf(store'[f]) # <<>>)
           => CreatedDateOf(store'[f]) = CreatedDateOf(store[f])
      ]_vars

(***************************************************************************)
(* Display and scaling of one recipe                                       *)
(***************************************************************************)
\* most ingredients in a recipe handed to the display and scaling functions
MaxIngredients == 2

Unknown == <<"U","n","k","n","o","w","n">>

\* ingredient objects as json.load can return them; the last two lack keys
IngredientPool ==
    { [name |-> <<"f">>, quantity |-> Rat(2, 1), unit |-> <<"c">>],
      [name |-> <<"g">>, quantity |-> Rat(3, 1), unit |-> <<"c">>],
      [name |-> <<"s">>, quantity |-> Rat(1, 2), unit |-> <<"t">>],
      [name |-> <<"v">>, quantity |-> Rat(1, 20), unit |-> <<"t">>],
      [name |-> <<"y">>, quantity |-> Rat(17, 1000), unit |-> <<"g">>],
      [name |-> <<"z">>, quantity |-> Rat(0, 1), unit |-> <<"g">>],
      [name |-> <<"n">>, quantity |-> Rat(-3, 2), unit |-> <<"c">>],
      [name |-> <<"m">>, unit |-> <<"c">>],
      [quantity |-> Rat(1, 8)] }

IngredientLists ==
    UNION { [1..n -> IngredientPool] : n \in 0..MaxIngredients }

\* recipes as json.load can return them, with and without an ingredients key
ScaleRecipes ==
    { [name |-> <<"p","i","e">>, notes |-> <<"m","i","x">>, ingredients |-> l,
       created_date |-> <<"1">>] : l \in IngredientLists }
    \cup { [name |-> <<"p","i","e">>] }

\* answers typed at "How much ... will you be using?"
TargetInputs ==
    { << <<"4">> >>,
      << <<"1">> >>,
      << <<"0">>, <<"2">> >>,
      << <<"x">>, <<"-","1">>, <<"3">> >>,
      << <<"0",".","5">> >>,
      << <<" ","0",".","0","1">> >>,
      << <<"-","2">>, <<"a">> >> }

\* lines 719-730: the first answer that float() accepts and that is positive
RECURSIVE ReadTarget(_)
ReadTarget(answers) ==
    IF answers = <<>> THEN NumFail
    ELSE LET user_quantity == ParseFloat(Head(answers)) IN
         IF user_quantity.ok /\ ~RatLeq(user_quantity.val, Rat(0, 1))
         THEN user_quantity
         ELSE ReadTarget(Tail(answers))

\* the check of line 703 left out
NoIngredientsUnchecked(ingredients) == FALSE

\* line 703: not ingredients
NoIngredients(ingredients) == ingredients = <<>>

\* line 733
ScalingFactor(user_quantity, base_quantity) == RatDiv(user_quantity, base_quantity)

\* lines 751-768: the row of one ingredient
ScaledRow(ingredient, scaling_factor) ==
    LET original_qty == Get(ingredient, "quantity", Rat(0, 1))
        scaled_qty   == RatMul(original_qty, scaling_factor)
    IN  [name |-> Get(ingredient, "name", Unknown),
         qty |-> scaled_qty,
         str |-> ScaledQtyStr(scaled_qty),
         unit |-> Get(ingredient, "unit", <<>>)]

\* the loop of line 750 skipping the ingredients whose amount prints as 0
RECURSIVE ScaledRowsSkippingZero(_, _)
ScaledRowsSkippingZero(ingredients, scaling_factor) ==
    IF ingredients = <<>> THEN <<>>
    ELSE (IF ScaledRow(Head(ingredients), scaling_factor).str = <<"0">>
          THEN <<>>
          ELSE <<ScaledRow(Head(ingredients), scaling_factor)>>)
         \o ScaledRowsSkippingZero(Tail(ingredients), scaling_factor)

\* the loop of line 750
RECURSIVE ScaledRows(_, _)
ScaledRows(ingredients, scaling_factor) ==
    IF ingredients = <<>> THEN <<>>
    ELSE <<ScaledRow(Head(ingredients), scaling_factor)>>
         \o ScaledRows(Tail(ingredients), scaling_factor)

\* perform_recipe_calculation for a recipe that the check of line 703 rejects
PerformNoIngredients ==
    LET ingredients == Get(recipe_data, "ingredients", <<>>) IN
    /\ NoIngredients(ingredients)
    /\ calc' = [outcome |-> "no_ingredients", prompted |-> FALSE,
                user_quantity |-> <<>>, scaling_factor |-> <<>>, rows |-> <<>>]
    /\ UNCHANGED <<recipe_data, preview_rows, full_rows>>
    /\ UNCHANGED storeVars
    /\ UNCHANGED searchVars
    /\ UNCHANGED deleting
    /\ UNCHANGED capture

\* perform_recipe_calculation past line 705, with the answers typed at the
\* prompt; ingredients[0] of an empty list raises IndexError and a zero base
\* quantity raises ZeroDivisionError, neither is caught
PerformScaling(answers) ==
    LET ingredients == Get(recipe_data, "ingredients", <<>>) IN
    /\ ~NoIngredients(ingredients)
    /\ IF ingredients = <<>>
       THEN calc' = [outcome |-> "IndexError", prompted |-> FALSE,
                     user_quantity |-> <<>>, scaling_factor |-> <<>>, rows |-> <<>>]
       ELSE LET base_quantity == Get(ingredients[1], "quantity", Rat(1, 1))
                target        == ReadTarget(answers)
            IN  /\ target.ok
                /\ IF base_quantity.n = 0
                   THEN calc' = [outcome |-> "ZeroDivisionError", prompted |-> TRUE,
                                 user_quantity |-> target.val,
                                 scaling_factor |-> <<>>, rows |-> <<>>]
                   ELSE calc' = [outcome |-> "scaled", prompted |-> TRUE,
                                 user_quantity |-> target.val,
                                 scaling_factor |->
                                     ScalingFactor(target.val, base_quantity),
                                 rows |-> ScaledRows(ingredients,
                                     ScalingFactor(target.val, base_quantity))]
    /\ UNCHANGED <<recipe_data, preview_rows, full_rows>>
    /\ UNCHANGED storeVars
    /\ UNCHANGED searchVars
    /\ UNCHANGED deleting
    /\ UNCHANGED capture

\* lines 495-505: the row of one ingredient in display_full_recipe
FullRow(ingredient) ==
    LET qty == Get(ingredient, "quantity", Rat(0, 1)) IN
    [name |-> Get(ingredient, "name", Unknown), qty |-> qty,
     str |-> FullQtyStr(qty), unit |-> Get(ingredient, "unit", <<>>)]

RECURSIVE FullRows(_)
FullRows(ingredients) ==
    IF ingredients = <<>> THEN <<>>
    ELSE <<FullRow(Head(ingredients))>> \o FullRows(Tail(ingredients))

\* display_full_recipe(recipe_data)
DisplayFullRecipe ==
    /\ full_rows' = FullRows(Get(recipe_data, "ingredients", <<>>))
    /\ UNCHANGED <<recipe_data, calc, preview_rows>>
    /\ UNCHANGED storeVars
    /\ UNCHANGED searchVars
    /\ UNCHANGED deleting
    /\ UNCHANGED capture

\* lines 280-288: the row of one ingredient in display_recipe_preview
PreviewRow(ingredient) ==
    [name |-> ingredient.name, qty |-> ingredient.quantity,
     str |-> PreviewQtyStr(ingredient.quantity), unit |-> ingredient.unit]

RECURSIVE PreviewRows(_)
PreviewRows(ingredients) ==
    IF ingredients = <<>> THEN <<>>
    ELSE <<PreviewRow(Head(ingredients))>> \o PreviewRows(Tail(ingredients))

\* recipe_data has every key display_recipe_preview indexes, as the
\* recipe_data new_recipe builds has
HasAllKeys(r) ==
    /\ {"name", "notes", "ingredients"} \subseteq DOMAIN r
    /\ \A i \in 1..Len(r.ingredients) :
          {"name", "quantity", "unit"} \subseteq DOMAIN r.ingredients[i]

\* display_recipe_preview(recipe_data)
DisplayRecipePreview ==
    /\ HasAllKeys(recipe_data)
    /\ preview_rows' = PreviewRows(recipe_data.ingredients)
    /\ UNCHANGED <<recipe_data, calc, full_rows>>
    /\ UNCHANGED storeVars
    /\ UNCHANGED searchVars
    /\ UNCHANGED deleting
    /\ UNCHANGED capture

StoreIdle ==
    /\ dirExists = FALSE
    /\ store = NoStore
    /\ clock = 0
    /\ last = NoOperation
    /\ all_recipes = <<>>
    /\ read_errors = {}

InitScale ==
    /\ StoreIdle
    /\ recipe_data \in ScaleRecipes
    /\ calc = NoCalc
    /\ preview_rows = <<>>
    /\ full_rows = <<>>
    /\ SearchIdle
    /\ deleting = NoDeletion
    /\ capture = NoCapture

NextScale ==
    \/ PerformNoIngredients
    \/ \E answers \in TargetInputs : PerformScaling(answers)
    \/ DisplayFullRecipe
    \/ DisplayRecipePreview

SpecScale == InitScale /\ [][NextScale]_vars

(***************************************************************************)
(* Claims about scaling and quantity formatting                            *)
(***************************************************************************)
\* the ingredients perform_recipe_calculation reads from recipe_data
CalcIngredients == Get(recipe_data, "ingredients", <<>>)

\* a = b for rationals, by cross-multiplication
RatEq(a, b) == a.n * b.d = b.n * a.d

\* C5: the division user_target / base_quantity happens only when both are
\* positive; a stored base quantity that is zero or negative ends the scaling
\* with a reported InvalidInput, not with a factor, a table or an exception.
C5_DivisionGuarded ==
    (calc.outcome # "none" /\ CalcIngredients # <<>>)
    => LET base_quantity == Get(CalcIngredients[1], "quantity", Rat(1, 1)) IN
       /\ calc.outcome = "scaled"
             => (base_quantity.n > 0 /\ calc.user_quantity.n > 0)
       /\ base_quantity.n <= 0 => calc.outcome = "InvalidInput"

\* C6: the scaled table has one row per ingredient, in the order of the
\* ingredients, each with the name and unit of its ingredient and with the
\* quantity original * factor, where factor * base = target; no row is
\* dropped, also when its amount prints as 0.
C6_ScalePreservesCountAndOrder ==
    calc.outcome = "scaled"
    => /\ Len(calc.rows) = Len(CalcIngredients)
       /\ RatEq(RatMul(calc.scaling_factor,
                       Get(CalcIngredients[1], "quantity", Rat(1, 1))),
                calc.user_quantity)
       /\ \A i \in 1..Len(CalcIngredients) :
             i <= Len(calc.rows)
             => /\ calc.rows[i].name = Get(CalcIngredients[i], "name", Unknown)
                /\ calc.rows[i].unit = Get(CalcIngredients[i], "unit", <<>>)
                /\ calc.rows[i].qty.n
                      * Get(CalcIngredients[i], "quantity", Rat(0, 1)).d
                      * calc.scaling_factor.d
                   = Get(CalcIngredients[i], "quantity", Rat(0, 1)).n
                      * calc.scaling_factor.n
                      * calc.rows[i].qty.d

\* C6 witness: a table of two rows whose second amount is not zero and
\* prints as 0
C6_Witness ==
    /\ calc.outcome = "scaled"
    /\ Len(calc.rows) = 2
    /\ calc.rows[2].qty.n # 0
    /\ calc.rows[2].str = <<"0">>

\* number of characters after the decimal point of s, 0 when there is none
Decimals(s) == IF IndexOf(".", s) = 0 THEN 0 ELSE Len(s) - IndexOf(".", s)

\* |a - b| <= 1 / (2 * 10^k)
WithinHalfUnit(a, b, k) ==
    Abs(a.n * b.d - b.n * a.d) * 2 * Pow10(k) <= a.d * b.d

\* the formatting rule of the scaled amount v rendered as s
FollowsFormatRule(v, s) ==
    LET p == ParseNumber(s) IN
    /\ p.ok
    /\ s[Len(s)] # "."
    /\ IndexOf(".", s) > 0 => s[Len(s)] # "0"
    /\ RatIsInt(v) => (IndexOf(".", s) = 0 /\ RatEq(p.val, v))
    /\ (~RatIsInt(v) /\ RatLeq(Rat(1, 10), v))
          => (Decimals(s) <= 2 /\ WithinHalfUnit(p.val, v, 2))
    /\ (~RatIsInt(v) /\ RatLess(v, Rat(1, 10)))
          => (Decimals(s) <= 3 /\ WithinHalfUnit(p.val, v, 3))

\* C8: every scaled amount is rendered by the rule: an integer with no
\* decimal part, a non-integer of at least 0.1 rounded to 2 decimals, a
\* non-integer below 0.1 rounded to 3 decimals, trailing zeros and a trailing
\* decimal point removed; 0.5 * 2 prints as "1", 0.05 * (1/3) as "0.017".
C8_ScaledFormatRule ==
    \A i \in 1..Len(calc.rows) :
       /\ FollowsFormatRule(calc.rows[i].qty, calc.rows[i].str)
       /\ calc.rows[i].qty = Rat(1, 1) => calc.rows[i].str = <<"1">>
       /\ calc.rows[i].qty = Rat(1, 60)
             => calc.rows[i].str = <<"0", ".", "0", "1", "7">>

\* C8 witness: base 3 with target 1 scales a co-ingredient of 0.05 to 1/60,
\* shown as "0.017"
C8_Witness ==
    /\ calc.outcome = "scaled"
    /\ calc.scaling_factor = Rat(1, 3)
    /\ Len(calc.rows) = 2
    /\ Get(CalcIngredients[2], "quantity", Rat(0, 1)) = Rat(1, 20)
    /\ calc.rows[2].str = <<"0", ".", "0", "1", "7">>

\* C7: a quantity value is rendered as the same string by the preview, by the
\* full display and by the scaled display.
C7_SameFormatEverywhere ==
    LET shown == { preview_rows[i] : i \in 1..Len(preview_rows) }
                 \cup { full_rows[i] : i \in 1..Len(full_rows) }
                 \cup { calc.rows[i] : i \in 1..Len(calc.rows) }
    IN  \A a, b \in shown : RatEq(a.qty, b.qty) => a.str = b.str

\* C9: a recipe whose ingredient list is empty or absent is rejected before
\* the prompt for the target amount: nothing is asked, no factor is computed
\* and no table is produced.
C9_NoIngredientsRejectedFirst ==
    (calc.outcome # "none" /\ CalcIngredients = <<>>)
    => /\ calc.outcome = "no_ingredients"
       /\ ~calc.prompted
       /\ calc.user_quantity = <<>>
       /\ calc.scaling_factor = <<>>
       /\ calc.rows = <<>>

\* C9 witness: the calculation of a recipe without an ingredients key ended
\* as rejected
C9_Witness ==
    /\ calc.outcome = "no_ingredients"
    /\ "ingredients" \notin DOMAIN recipe_data

(***************************************************************************)
(* The search of a listing of more than SearchThreshold recipes            *)
(***************************************************************************)
\* most recipe files in the directory of a searched listing
MaxRecipes == 6

\* the top-level object of a stored recipe that keeps only its name, or no
\* key at all
NamedFile(name) == << <<"{">>, <<"name:">> \o EscapeText(name), <<"}">> >>

NamelessFile == << <<"{">>, <<"}">> >>

\* files of a directory: file name and content
FilePool ==
    { << <<"p","i","e">> \o JsonExt, NamedFile(<<"P","i","e">>) >>,
      << <<"p","i","e","-","2">> \o JsonExt, NamedFile(<<"p","I","E"," ","2">>) >>,
      << <<"t","e","a">> \o JsonExt, NamedFile(<<"T","e","a">>) >>,
      << <<"p","e","a">> \o JsonExt, NamedFile(<<"p","e","a">>) >>,
      << <<"a","p","e">> \o JsonExt, NamedFile(<<"A","p","e">>) >>,
      << <<"t","a","r","t">> \o JsonExt, NamedFile(<<"t","a","r","t">>) >>,
      << <<"e","a","t">> \o JsonExt, NamedFile(<<"E","A","T">>) >>,
      << <<"t","e","a","-","2">> \o JsonExt, NamelessFile >> }

\* the directories whose listing offers the search
SearchStores ==
    { d \in SUBSET FilePool :
        Cardinality(d) > SearchThreshold /\ Cardinality(d) <= MaxRecipes }

\* the directory d as the function store
RECURSIVE AsStore(_)
AsStore(d) ==
    IF d = {} THEN NoStore
    ELSE LET f == CHOOSE x \in d : TRUE IN (f[1] :> f[2]) @@ AsStore(d \ {f})

\* the file names of d in one of the orders os.listdir may return
RECURSIVE SomeOrder(_)
SomeOrder(d) ==
    IF d = {} THEN <<>>
    ELSE LET f == CHOOSE x \in d : TRUE IN <<f[1]>> \o SomeOrder(d \ {f})

\* a listing that stands at the prompt "Search by name? (y/n)"
InitSearch ==
    /\ \E d \in SearchStores :
          /\ dirExists = TRUE
          /\ store = AsStore(d)
          /\ all_recipes = SortRecipes(LoadAll(SomeOrder(d), 1))
    /\ clock = 0
    /\ last = [NoOperation EXCEPT !.op = "list", !.listed = "listed"]
    /\ read_errors = {}
    /\ ScaleIdle
    /\ search_note = "offered"
    /\ search_term = <<>>
    /\ filtered_recipes = all_recipes
    /\ recipes_table = <<>>
    /\ deleting = NoDeletion
    /\ capture = NoCapture

NextSearch == \E input \in SearchInputs : SearchRecipes(input)

SpecSearch == InitSearch /\ [][NextSearch]_vars

\* C10: a non-empty search term that matches no recipe name leaves an empty
\* filtered_recipes, which differs from the list shown when no term is
\* applied; the search does not put the unfiltered list in its place.
C10_NoMatchGivesEmptyResult ==
    (/\ search_note \notin {"none", "offered", "not_offered", "declined"}
     /\ search_term # <<>>
     /\ \A i \in 1..Len(all_recipes) :
           ~Matches(search_term, RecipeName(all_recipes[i])))
    => (filtered_recipes = <<>> /\ filtered_recipes # all_recipes)

(***************************************************************************)
(* Claims about the search result and its highlights                       *)
(***************************************************************************)
\* the positions of all_recipes whose name contains term, letter case ignored
MatchingPositions(term) ==
    { i \in 1..Len(all_recipes) :
        \E k \in 0..Len(RecipeName(all_recipes[i])) :
           /\ k + Len(term) <= Len(RecipeName(all_recipes[i]))
           /\ Lower(SubSeq(RecipeName(all_recipes[i]), k + 1, k + Len(term)))
                 = Lower(term) }

\* the position of the recipe x in all_recipes, 0 when it is not there
PositionOf(x) ==
    IF \E i \in 1..Len(all_recipes) : all_recipes[i] = x
    THEN CHOOSE i \in 1..Len(all_recipes) : all_recipes[i] = x
    ELSE 0

\* the offset of the first occurrence of term in name, letter case ignored
FirstOccurrence(term, name) ==
    CHOOSE k \in 0..Len(name) :
       /\ k + Len(term) <= Len(name)
       /\ Lower(SubSeq(name, k + 1, k + Len(term))) = Lower(term)
       /\ \A j \in 0..(k - 1) :
             Lower(SubSeq(name, j + 1, j + Len(term))) # Lower(term)

\* C11: after a search with a non-empty term, filtered_recipes holds exactly
\* the recipes of all_recipes whose name contains the term, letter case
\* ignored, in the order of all_recipes, and each row of the table carries
\* the span (start, start + length of the term) of the first occurrence of
\* the term in the name as it is written.
C11_FilterExactWithSpans ==
    (search_note \in {"found", "no_match_showing_all"} /\ search_term # <<>>)
    => /\ Len(filtered_recipes) = Cardinality(MatchingPositions(search_term))
       /\ \A i \in 1..Len(filtered_recipes) :
             PositionOf(filtered_recipes[i]) \in MatchingPositions(search_term)
       /\ \A i, j \in 1..Len(filtered_recipes) :
             i < j => PositionOf(filtered_recipes[i])
                         < PositionOf(filtered_recipes[j])
       /\ Len(recipes_table) = Len(filtered_recipes)
       /\ \A i \in 1..Len(recipes_table) :
             i <= Len(filtered_recipes)
             => /\ recipes_table[i].name = RecipeName(filtered_recipes[i])
                /\ PositionOf(filtered_recipes[i])
                      \in MatchingPositions(search_term)
                   => /\ recipes_table[i].start_idx
                            = FirstOccurrence(search_term, recipes_table[i].name)
                      /\ recipes_table[i].end_idx
                            = recipes_table[i].start_idx + Len(search_term)

\* C12: when no search term is applied (the search is declined or the term
\* entered is empty), filtered_recipes is all_recipes, same elements in the
\* same order, and no row of the table carries a span or a highlight.
C12_EmptyTermKeepsAll ==
    (search_note \in {"declined", "no_term_showing_all"})
    => /\ search_term = <<>>
       /\ filtered_recipes = all_recipes
       /\ Len(recipes_table) = Len(all_recipes)
       /\ \A i \in 1..Len(recipes_table) :
             /\ recipes_table[i].start_idx = -1
             /\ recipes_table[i].end_idx = -1
             /\ recipes_table[i].display_name = recipes_table[i].name
             /\ i <= Len(all_recipes)
                => recipes_table[i].name = RecipeName(all_recipes[i])

\* C12 witness: the search was accepted, the term entered was empty, and the
\* table shows more rows than SearchThreshold
C12_Witness ==
    /\ search_note = "no_term_showing_all"
    /\ Len(recipes_table) > SearchThreshold
    /\ filtered_recipes = all_recipes

(***************************************************************************)
(* delete_recipe                                                           *)
(***************************************************************************)
\* most files in the directory delete_recipe lists
MaxFiles == 3

\* the least of the names in files, in code-point order
LeastName(files) == CHOOSE f \in files : \A g \in files : g = f \/ StrLess(f, g)

\* recipe_files.sort(), line 808
RECURSIVE SortNames(_)
SortNames(files) ==
    IF files = {} THEN <<>>
    ELSE <<LeastName(files)>> \o SortNames(files \ {LeastName(files)})

\* the try block of lines 826-848 for the file at position i, where r is
\* what json.load made of the file: a row and an entry of recipe_data_list
\* when json.load succeeds, recipe_data has get and add_row accepts the name
TryRow(i, filename, r) ==
    IF r.ok /\ IsObject(r.data)
            /\ IsStr(Get(r.data, "name", WithoutJson(filename)))
    THEN << [num |-> i,
             name |-> Get(r.data, "name", WithoutJson(filename)),
             filename |-> filename,
             recipe_data |-> r.data] >>
    ELSE <<>>

\* the loop of lines 824-852: the rows added, numbered by the position of
\* their file in recipe_files
RECURSIVE DeleteRows(_, _)
DeleteRows(recipe_files, i) ==
    IF i > Len(recipe_files) THEN <<>>
    ELSE TryRow(i, recipe_files[i], Load(store[recipe_files[i]]))
         \o DeleteRows(recipe_files, i + 1)

\* recipes_table as the loop leaves it
RECURSIVE DeleteTable(_)
DeleteTable(rows) ==
    IF rows = <<>> THEN <<>>
    ELSE << [num |-> Head(rows).num, name |-> Head(rows).name,
             filename |-> Head(rows).filename] >>
         \o DeleteTable(Tail(rows))

\* recipe_data_list as the loop leaves it
RECURSIVE DeleteList(_)
DeleteList(rows) ==
    IF rows = <<>> THEN <<>>
    ELSE << <<Head(rows).filename, Head(rows).recipe_data>> >>
         \o DeleteList(Tail(rows))

\* os.remove(filepath) on the directory
StoreWithout(filename) == [f \in DOMAIN store \ {filename} |-> store[f]]

\* what a run of delete_recipe leaves of the other handlers' listings
OtherListingsGone ==
    /\ all_recipes' = <<>>
    /\ read_errors' = {}
    /\ last' = [NoOperation EXCEPT !.op = "delete"]
    /\ SearchReset
    /\ UNCHANGED scaleVars
    /\ UNCHANGED capture

\* delete_recipe up to the prompt "Enter recipe number to DELETE", or up to
\* its early return when there is nothing to list
DeleteRecipeList ==
    LET files == { f \in DOMAIN store : EndsWithJson(f) }
        recipe_files == SortNames(files)
    IN
    /\ search_note # "offered"
    /\ deleting.pos # "prompt"
    /\ \E rows \in {DeleteRows(recipe_files, 1)} :
       deleting' =
          IF ~dirExists THEN [NoDeletion EXCEPT !.outcome = "no_directory"]
          ELSE IF files = {} THEN [NoDeletion EXCEPT !.outcome = "no_recipes"]
          ELSE [NoDeletion EXCEPT
                   !.pos = "prompt",
                   !.outcome = "listed",
                   !.recipe_files = recipe_files,
                   !.table = DeleteTable(rows),
                   !.recipe_data_list = DeleteList(rows),
                   !.errors = { f \in files :
                                  \A k \in 1..Len(rows) : rows[k].filename # f }]
    /\ UNCHANGED <<dirExists, store, clock>>
    /\ OtherListingsGone

\* the answer 'q' at the prompt
DeleteCancelled ==
    /\ deleting.pos = "prompt"
    /\ deleting' = [deleting EXCEPT !.pos = "done", !.outcome = "cancelled"]
    /\ UNCHANGED <<dirExists, store, clock, all_recipes, read_errors, last>>
    /\ UNCHANGED searchVars
    /\ UNCHANGED scaleVars
    /\ UNCHANGED capture

\* a number outside 1..len(recipe_data_list): asked again
DeleteOutOfRange(choice_num) ==
    /\ deleting.pos = "prompt"
    /\ ~(1 <= choice_num /\ choice_num <= Len(deleting.recipe_data_list))
    /\ deleting' = [deleting EXCEPT !.outcome = "out_of_range",
                                    !.choice_num = choice_num]
    /\ UNCHANGED <<dirExists, store, clock, all_recipes, read_errors, last>>
    /\ UNCHANGED searchVars
    /\ UNCHANGED scaleVars
    /\ UNCHANGED capture

\* the removal of a file that is gone taken for a removal that worked
DeleteChosenIgnoringMissing(choice_num, confirmed) ==
    /\ deleting.pos = "prompt"
    /\ 1 <= choice_num /\ choice_num <= Len(deleting.recipe_data_list)
    /\ LET filename == deleting.recipe_data_list[choice_num][1] IN
       /\ deleting' =
             [deleting EXCEPT
                 !.pos = "done",
                 !.choice_num = choice_num,
                 !.removed = IF confirmed THEN filename ELSE <<>>,
                 !.outcome = IF ~confirmed THEN "not_deleted" ELSE "deleted"]
       /\ store' = IF confirmed /\ filename \in DOMAIN store
                   THEN StoreWithout(filename) ELSE store
    /\ UNCHANGED <<dirExists, clock, all_recipes, read_errors, last>>
    /\ UNCHANGED searchVars
    /\ UNCHANGED scaleVars
    /\ UNCHANGED capture

\* a number in range and the answer to "Are you absolutely sure": lines
\* 872-918, with os.remove raising FileNotFoundError for a file that is gone
DeleteChosen(choice_num, confirmed) ==
    /\ deleting.pos = "prompt"
    /\ 1 <= choice_num /\ choice_num <= Len(deleting.recipe_data_list)
    /\ LET filename == deleting.recipe_data_list[choice_num][1] IN
       /\ deleting' =
             [deleting EXCEPT
                 !.pos = "done",
                 !.choice_num = choice_num,
                 !.removed = IF confirmed /\ filename \in DOMAIN store
                             THEN filename ELSE <<>>,
                 !.outcome = IF ~confirmed THEN "not_deleted"
                             ELSE IF filename \in DOMAIN store THEN "deleted"
                             ELSE "error_deleting"]
       /\ store' = IF confirmed /\ filename \in DOMAIN store
                   THEN StoreWithout(filename) ELSE store
    /\ UNCHANGED <<dirExists, clock, all_recipes, read_errors, last>>
    /\ UNCHANGED searchVars
    /\ UNCHANGED scaleVars
    /\ UNCHANGED capture

\* another process removes a file while delete_recipe waits at its prompt
FileVanishes(filename) ==
    /\ deleting.pos = "prompt"
    /\ filename \in DOMAIN store
    /\ store' = StoreWithout(filename)
    /\ UNCHANGED <<dirExists, clock, all_recipes, read_errors, last>>
    /\ UNCHANGED searchVars
    /\ UNCHANGED scaleVars
    /\ UNCHANGED capture
    /\ UNCHANGED deleting

\* files a directory can hold: recipes, text that is not JSON, JSON that is
\* not an object, an object whose name is a number
DeletePool ==
    { << <<"p","i","e">> \o JsonExt, NamedFile(<<"P","i","e">>) >>,
      << <<"t","e","a">> \o JsonExt, NamedFile(<<"T","e","a">>) >>,
      << <<"a","p","e">> \o JsonExt, NamelessFile >>,
      << <<"b","a","d">> \o JsonExt, << <<"{">>, <<"name:","b","a","d">> >> >>,
      << <<"l","i","s","t">> \o JsonExt, << <<"[]">> >> >>,
      << <<"n","u","m">> \o JsonExt, << <<"{">>, <<"name#","5">>, <<"}">> >> >> }

DeleteStores == { d \in SUBSET DeletePool : Cardinality(d) <= MaxFiles }

InitDelete ==
    /\ dirExists = TRUE
    /\ \E d \in DeleteStores : store = AsStore(d)
    /\ clock = 0
    /\ last = NoOperation
    /\ all_recipes = <<>>
    /\ read_errors = {}
    /\ ScaleIdle
    /\ SearchIdle
    /\ deleting = NoDeletion
    /\ capture = NoCapture

NextDelete ==
    \/ DeleteRecipeList
    \/ DeleteCancelled
    \/ \E choice_num \in 0..(MaxFiles + 1) : DeleteOutOfRange(choice_num)
    \/ \E choice_num \in 1..MaxFiles, confirmed \in BOOLEAN :
          DeleteChosen(choice_num, confirmed)
    \/ \E filename \in DOMAIN store : FileVanishes(filename)
    \/ \E order \in ListdirOrders({ f \in DOMAIN store : EndsWithJson(f) }) :
          ListRecipes(order)

SpecDelete == InitDelete /\ [][NextDelete]_vars

(***************************************************************************)
(* Claims about listing and deleting                                       *)
(***************************************************************************)
\* the file holds a recipe object: it parses, to an object, whose name, when
\* it has one, is text
HoldsRecipe(filename) ==
    /\ Load(store[filename]).ok
    /\ IsObject(Load(store[filename]).data)
    /\ IsStr(Get(Load(store[filename]).data, "name", <<>>))

\* C13: a listing completes whatever the files hold: view_recipes and
\* calculate_recipe end with every recipe file in all_recipes and every other
\* file reported, and delete_recipe reaches its prompt with every recipe file
\* in recipe_data_list and every other file reported.
C13_BulkListingNeverAborts ==
    /\ (last.op = "list" /\ dirExists)
       => /\ last.listed \in {"listed", "no_recipes"}
          /\ \A f \in DOMAIN store :
                EndsWithJson(f)
                => IF HoldsRecipe(f)
                   THEN \E i \in 1..Len(all_recipes) : all_recipes[i][1] = f
                   ELSE f \in read_errors
    /\ deleting.pos = "prompt"
       => \A k \in 1..Len(deleting.recipe_files) :
             deleting.recipe_files[k] \in DOMAIN store
             => IF HoldsRecipe(deleting.recipe_files[k])
                THEN \E i \in 1..Len(deleting.recipe_data_list) :
                        deleting.recipe_data_list[i][1]
                           = deleting.recipe_files[k]
                ELSE deleting.recipe_files[k] \in deleting.errors

\* the file a step of delete_recipe answers the prompt for, <<>> when the
\* answer is no number of recipe_data_list
ChosenFile ==
    IF /\ deleting.pos = "prompt" /\ deleting'.pos = "done"
       /\ deleting'.choice_num \in 1..Len(deleting.recipe_data_list)
    THEN deleting.recipe_data_list[deleting'.choice_num][1]
    ELSE <<>>

\* C14: when the deletion of a file is confirmed and the file is no longer
\* there, delete_recipe ends with the error outcome, not with the success
\* outcome, and the directory is left exactly as it was.
C14_DeleteAbsentIsError ==
    [][(/\ ChosenFile # <<>>
        /\ ChosenFile \notin DOMAIN store
        /\ deleting'.outcome # "not_deleted")
       => (/\ deleting'.outcome = "error_deleting"
           /\ deleting'.removed = <<>>
           /\ store' = store)]_vars

\* C14 witness: a confirmed deletion ended with the error outcome for a file
\* that was listed and is gone
C14_Witness ==
    /\ deleting.outcome = "error_deleting"
    /\ deleting.pos = "done"
    /\ deleting.recipe_data_list[deleting.choice_num][1] \notin DOMAIN store

\* C17: a confirmed deletion with the number n removes the file of the table
\* row numbered n, and leaves every other file of the directory as it was.
C17_DeletesTheRowShown ==
    [][(ChosenFile # <<>> /\ deleting'.outcome = "deleted")
       => (/\ \E k \in 1..Len(deleting.table) :
                 /\ deleting.table[k].num = deleting'.choice_num
                 /\ deleting.table[k].filename = deleting'.removed
           /\ DOMAIN store' = DOMAIN store \ {deleting'.removed}
           /\ \A f \in DOMAIN store' : store'[f] = store[f])]_vars

(***************************************************************************)
(* Claims about what new_recipe makes of the typed name and notes          *)
(***************************************************************************)
\* the lower-case form of one character
LowerOf(c) ==
    IF \E k \in 1..Len(UpperChars) : UpperChars[k] = c
    THEN LowerChars[CHOOSE k \in 1..Len(UpperChars) : UpperChars[k] = c]
    ELSE c

\* id is typed without its leading and trailing whitespace, lower-cased,
\* with a hyphen for each space
IsIdentifierOf(id, typed) ==
    \E a, b \in 0..Len(typed) :
       /\ a + b + Len(id) = Len(typed)
       /\ \A i \in 1..a : IsSpace(typed[i])
       /\ \A i \in (Len(typed) - b + 1)..Len(typed) : IsSpace(typed[i])
       /\ Len(id) > 0 => (~IsSpace(typed[a + 1]) /\ ~IsSpace(typed[a + Len(id)]))
       /\ \A i \in 1..Len(id) :
             id[i] = IF typed[a + i] = " " THEN "-" ELSE LowerOf(typed[a + i])

\* C15: the identifier new_recipe goes on with is the typed name lower-cased,
\* trimmed of surrounding whitespace, with each inner space replaced by a
\* hyphen; it is not empty and holds no space and no upper-case letter; a
\* saved recipe is stored under the key identifier + ".json".
C15_IdentifierDerivation ==
    last.op = "new"
    => /\ IsIdentifierOf(last.id, last.typed)
       /\ last.id # <<>>
       /\ \A i \in 1..Len(last.id) :
             /\ last.id[i] # " "
             /\ \A k \in 1..Len(UpperChars) : last.id[i] # UpperChars[k]
       /\ last.result = "saved"
          => /\ (last.id \o <<".", "j", "s", "o", "n">>) \in DOMAIN store
             /\ Load(store[last.id \o <<".", "j", "s", "o", "n">>]).ok

\* C15 witness: the name " Nut  Pie " was typed and the recipe was saved as
\* nut--pie.json
C15_Witness ==
    /\ last.op = "new"
    /\ last.result = "saved"
    /\ last.typed = <<" ","N","u","t"," "," ","P","i","e"," ">>
    /\ last.id = <<"n","u","t","-","-","p","i","e">>
    /\ <<"n","u","t","-","-","p","i","e",".","j","s","o","n">> \in DOMAIN store

(***************************************************************************)
(* The notes loop of new_recipe, line by line                              *)
(***************************************************************************)
\* most lines typed at the notes prompt
MaxLines == 5

\* lines typed at the notes prompt
NoteLines ==
    { <<>>, <<" ">>, <<"m","i","x">>, <<"D","O","N","E">>,
      <<" ","d","o","n","e"," ">>, <<"d","o","n","e","r">> }

\* input() returns line in the loop of lines 166-176; when the loop breaks,
\* lines 179-183 make the notes of the lines kept
NotesLine(line) ==
    /\ capture.pos = "reading"
    /\ Len(capture.typed_lines) < MaxLines
    /\ \E r \in {ReadNotes(Append(capture.typed_lines, line), 1, <<>>, 0)} :
          capture' =
             [pos |-> IF r.done THEN "captured" ELSE "reading",
              typed_lines |-> Append(capture.typed_lines, line),
              notes_lines |-> IF r.done THEN DropTrailingBlank(r.lines)
                              ELSE r.lines,
              notes |-> IF r.done THEN JoinLines(DropTrailingBlank(r.lines))
                        ELSE <<>>]
    /\ UNCHANGED storeVars
    /\ UNCHANGED searchVars
    /\ UNCHANGED scaleVars
    /\ UNCHANGED deleting

\* new_recipe at line 166, before the first input()
InitNotes ==
    /\ StoreIdle
    /\ ScaleIdle
    /\ SearchIdle
    /\ deleting = NoDeletion
    /\ capture = [NoCapture EXCEPT !.pos = "reading"]

NextNotes == \E line \in NoteLines : NotesLine(line)

SpecNotes == InitNotes /\ [][NextNotes]_vars

\* the line is empty or holds whitespace only
IsBlank(line) == \A i \in 1..Len(line) : IsSpace(line[i])

\* the line is the word done, in any letter case, within optional whitespace
IsDoneToken(line) ==
    \E a, b \in 0..Len(line) :
       /\ a + b + 4 = Len(line)
       /\ \A i \in 1..a : IsSpace(line[i])
       /\ \A i \in (Len(line) - b + 1)..Len(line) : IsSpace(line[i])
       /\ \A i \in 1..4 : LowerOf(line[a + i]) = <<"d","o","n","e">>[i]

\* the k-th typed line ends the capture
EndsCapture(typed, k) ==
    \/ IsDoneToken(typed[k])
    \/ k >= 2 /\ IsBlank(typed[k]) /\ IsBlank(typed[k - 1])

\* number of typed lines before the terminator that are left when the
\* trailing blank lines are removed
KeptCount(typed) ==
    IF \E m \in 1..(Len(typed) - 1) : ~IsBlank(typed[m])
    THEN CHOOSE m \in 1..(Len(typed) - 1) :
            /\ ~IsBlank(typed[m])
            /\ \A j \in (m + 1)..(Len(typed) - 1) : IsBlank(typed[j])
    ELSE 0

\* C16: the capture of the notes ends exactly at the first typed line that is
\* the done token or the second of two consecutive blank lines; the notes
\* kept are the lines typed before it without the trailing blank lines, so
\* they do not end with a blank line, hold no two consecutive blank lines and
\* do not hold the terminator.
C16_NotesCapture ==
    /\ capture.pos = "reading"
       => \A k \in 1..Len(capture.typed_lines) :
             ~EndsCapture(capture.typed_lines, k)
    /\ capture.pos = "captured"
       => /\ EndsCapture(capture.typed_lines, Len(capture.typed_lines))
          /\ \A k \in 1..(Len(capture.typed_lines) - 1) :
                ~EndsCapture(capture.typed_lines, k)
          /\ capture.notes_lines
                = SubSeq(capture.typed_lines, 1, KeptCount(capture.typed_lines))
          /\ capture.notes = JoinLines(capture.notes_lines)
          /\ capture.notes_lines # <<>>
             => ~IsBlank(capture.notes_lines[Len(capture.notes_lines)])
          /\ \A i \in 1..Len(capture.notes_lines) :
                /\ ~IsDoneToken(capture.notes_lines[i])
                /\ i > 1 => ~(/\ IsBlank(capture.notes_lines[i])
                              /\ IsBlank(capture.notes_lines[i - 1]))

\* C16 witness: two consecutive blank lines ended a capture that keeps a
\* blank line between two lines of text
C16_Witness ==
    /\ capture.pos = "captured"
    /\ Len(capture.typed_lines) = 5
    /\ IsBlank(capture.typed_lines[5])
    /\ Len(capture.notes_lines) = 3
    /\ IsBlank(capture.notes_lines[2])

\* C18: in a scaled table the quantity of the base ingredient, the first
\* row, equals the target quantity that was entered, also when the stored
\* base ingredient has no quantity field.
C18_BaseRowEqualsTarget ==
    calc.outcome = "scaled"
    => /\ calc.rows # <<>>
       /\ RatEq(calc.rows[1].qty, calc.user_quantity)

====
